---- MODULE Spec2Model ----
(***************************************************************************)
(* A model of the load-profile scaling pipeline of eer_load_shapes:        *)
(*   UCS_load_profile_scaling/main.py  interpolate_scaling_factors,        *)
(*                                     scale_profile, main                 *)
(*   scripts/generate_scenarios.py     the copy-and-rescale loop           *)
(*                                                                         *)
(* Python floats are IEEE-754 binary64: every arithmetic result is the     *)
(* exact result rounded to the nearest value with a 53-bit significand,    *)
(* ties to even.  The model keeps that arithmetic (FDiv, FMul, FAdd, FSub  *)
(* round each result the same way) with a significand of MantBits bits,    *)
(* so that the values fit the checker's integers.  The exponent range is   *)
(* unbounded: overflow to inf and subnormals are outside the model.        *)
(* A number is a pair <<m, k>> standing for m / 2^k.                       *)
(***************************************************************************)
EXTENDS Integers, Sequences, FiniteSets, TLC

VARIABLES
    scaling_inputs,   \* the control-totals table (main.py:215)
    scenario,         \* argument of interpolate_scaling_factors
    subsector_group,  \* argument of both functions: a comma separated string
    target_year,      \* argument of interpolate_scaling_factors
    scaling_factors,  \* the map returned by interpolate_scaling_factors
    df,               \* the profile table passed to scale_profile
    scaled_df,        \* the table scale_profile returns
    scenario_df,      \* generate_scenarios: the hourly rows of every year read
    scenario_annual,  \* generate_scenarios: the interpolated annual totals
    year,             \* generate_scenarios: the loop variable
    frames,           \* generate_scenarios: the blocks emitted so far
    heap,             \* main: the objects made so far, by identity
    env,              \* main: the object each name of main is bound to
    subsector_groups, \* main: the groups the loop has still to go through
    pc                \* position in the run

\* the variables of UCS_load_profile_scaling/main.py
scalingVars == <<scaling_inputs, scenario, subsector_group, target_year,
                 scaling_factors, df, scaled_df>>

\* the variables of scripts/generate_scenarios.py
scenarioVars == <<scenario_df, scenario_annual, year, frames>>

\* the variables of main, where tables are objects that names refer to
driverVars == <<heap, env, subsector_groups>>

vars == <<scalingVars, scenarioVars, driverVars, pc>>

----------------------------------------------------------------------------
(* Bounds *)

\* bits of significand of the modelled binary floating point (53 in Python)
MantBits == 7

\* rows of a profile table
NumRows == 2

\* rows of a control-totals table, at most
MaxTableRows == 3

\* hours of a year: the rows kept of every block (8760 in the script)
HoursPerYear == 2

----------------------------------------------------------------------------
(* Floating point numbers: <<m, k>> is m / 2^k *)

RECURSIVE Pow2(_)
Pow2(k) == IF k = 0 THEN 1 ELSE 2 * Pow2(k - 1)

Abs(n) == IF n < 0 THEN -n ELSE n

Sgn(n) == IF n < 0 THEN -1 ELSE IF n = 0 THEN 0 ELSE 1

RECURSIVE Norm(_, _)
\* the canonical pair of m / 2^k: k = 0 or m odd
Norm(m, k) ==
    IF m = 0 THEN <<0, 0>>
    ELSE IF k > 0 /\ m % 2 = 0 THEN Norm(m \div 2, k - 1)
    ELSE <<m, k>>

\* round-half-to-even of a / d, a >= 0, d > 0
RoundHalfEven(a, d) ==
    LET q == a \div d
        r == a % d
    IN  IF 2 * r > d \/ (2 * r = d /\ q % 2 = 1) THEN q + 1 ELSE q

RECURSIVE RoundPos(_, _, _)
\* the float nearest to (a / d) * 2^e, a > 0, d > 0: scale a / d into
\* [2^(MantBits-1), 2^MantBits), round it to an integer, scale back
RoundPos(a, d, e) ==
    IF a >= d * Pow2(MantBits) THEN RoundPos(a, 2 * d, e + 1)
    ELSE IF a < d * Pow2(MantBits - 1) THEN RoundPos(2 * a, d, e - 1)
    ELSE LET q == RoundHalfEven(a, d)
         IN  IF e >= 0 THEN <<q * Pow2(e), 0>> ELSE Norm(q, -e)

\* the float nearest to the rational n / d, d > 0
RoundRat(n, d) ==
    IF n = 0 THEN <<0, 0>>
    ELSE LET r == RoundPos(Abs(n), d, 0)
         IN  <<Sgn(n) * r[1], r[2]>>

\* float(n) of an integer
FromInt(n) == RoundRat(n, 1)

\* x / y, y # 0
FDiv(x, y) ==
    RoundRat(Sgn(y[1]) * x[1] * Pow2(y[2]), Abs(y[1]) * Pow2(x[2]))

\* x * y
FMul(x, y) == RoundRat(x[1] * y[1], Pow2(x[2] + y[2]))

Max(a, b) == IF a >= b THEN a ELSE b

\* x + y
FAdd(x, y) ==
    LET K == Max(x[2], y[2])
    IN  RoundRat(x[1] * Pow2(K - x[2]) + y[1] * Pow2(K - y[2]), Pow2(K))

\* x - y
FSub(x, y) == FAdd(x, <<-y[1], y[2]>>)

\* the nearest integer instead of the integer part
MutTruncNearest(x) ==
    Sgn(x[1]) * RoundHalfEven(Abs(x[1]), Pow2(x[2]))

\* int(x), .astype(int): the integer part, toward zero
Trunc(x) == Sgn(x[1]) * (Abs(x[1]) \div Pow2(x[2]))

\* x == 0, x != 0
IsZero(x) == x[1] = 0

\* x > 0
IsPos(x) == x[1] > 0

----------------------------------------------------------------------------
(* Strings: a string is a sequence of tokens; "," and " " are the comma and
   the blank, every other token is a piece of a label *)

RECURSIVE SplitComma(_)
\* str.split(','): the pieces between the commas
SplitComma(s) ==
    IF \A i \in DOMAIN s : s[i] # ","
    THEN <<s>>
    ELSE LET c == CHOOSE i \in DOMAIN s :
                       s[i] = "," /\ \A j \in 1..(i - 1) : s[j] # ","
         IN  <<SubSeq(s, 1, c - 1)>> \o SplitComma(SubSeq(s, c + 1, Len(s)))

RECURSIVE Strip(_)
\* str.strip(): without the blanks at both ends
Strip(s) ==
    IF s = <<>> THEN s
    ELSE IF Head(s) = " " THEN Strip(Tail(s))
    ELSE IF s[Len(s)] = " " THEN Strip(SubSeq(s, 1, Len(s) - 1))
    ELSE s

\* [s.strip() for s in subsector_group.split(',')]
Subsectors(group) ==
    LET parts == SplitComma(group)
    IN  [i \in DOMAIN parts |-> Strip(parts[i])]

SeqRange(s) == {s[i] : i \in DOMAIN s}

----------------------------------------------------------------------------
(* scale_profile.  A profile table is [columns, rows]: columns is the
   sequence of its state columns, rows the sequence of its rows, each
   [sector, subsector, weather_datetime, vals], vals the row's value in
   every state column *)

\* every row taken for a row of the group
MutMaskAllRows(d, group) == DOMAIN d.rows

\* mask = scaled_df['subsector'].isin(subsectors): the indices of the rows
Mask(d, group) ==
    {i \in DOMAIN d.rows : d.rows[i].subsector \in SeqRange(Subsectors(group))}

RECURSIVE SumOver(_, _, _)
\* scaled_df.loc[mask, state].sum(): the selected values added in row order
SumOver(d, mask, state) ==
    IF mask = {} THEN <<0, 0>>
    ELSE LET i == CHOOSE j \in mask : \A l \in mask : l <= j
         IN  FAdd(SumOver(d, mask \ {i}, state), d.rows[i].vals[state])

\* scaled_df[state] = ...: the mask forgotten, every row is written
MutSetColumnAllRows(d, mask, state, cells) ==
    [d EXCEPT !.rows =
        [i \in DOMAIN d.rows |->
            IF mask # {}
            THEN [d.rows[i] EXCEPT !.vals[state] =
                     cells[IF i \in mask THEN i ELSE CHOOSE j \in mask : TRUE]]
            ELSE d.rows[i]]]

\* scaled_df.loc[mask, state] = cells: cells[i] is the new value of row i
SetColumn(d, mask, state, cells) ==
    [d EXCEPT !.rows =
        [i \in DOMAIN d.rows |->
            IF i \in mask
            THEN [d.rows[i] EXCEPT !.vals[state] = cells[i]]
            ELSE d.rows[i]]]

\* int(scaling_factor / num_rows)
EvenShare(scaling_factor, num_rows) ==
    <<Trunc(FDiv(scaling_factor, FromInt(num_rows))), 0>>

\* (value * ratio).astype(int) of one value
ScaledValue(value, ratio) == <<Trunc(FMul(value, ratio)), 0>>

\* the normal case alone: the zero-to-positive branch left out
MutScaleStateNoZeroCase(sdf, factors, mask, state) ==
    IF state \notin DOMAIN factors THEN sdf
    ELSE
      LET scaling_factor == factors[state]
          group_sum == SumOver(sdf, mask, state)
      IN  IF ~IsZero(group_sum)
          THEN LET ratio == FDiv(scaling_factor, group_sum)
               IN  SetColumn(sdf, mask, state,
                     [i \in mask |-> ScaledValue(sdf.rows[i].vals[state], ratio)])
          ELSE sdf

\* one pass of the loop over the state columns
ScaleState(sdf, factors, mask, state) ==
    IF state \notin DOMAIN factors THEN sdf
    ELSE
      LET scaling_factor == factors[state]
          group_sum == SumOver(sdf, mask, state)
      IN  IF IsZero(group_sum) /\ IsPos(scaling_factor)
          THEN LET num_rows == Cardinality(mask)
               IN  IF num_rows > 0
                   THEN SetColumn(sdf, mask, state,
                          [i \in mask |-> EvenShare(scaling_factor, num_rows)])
                   ELSE sdf
          ELSE IF ~IsZero(group_sum)
               THEN LET ratio == FDiv(scaling_factor, group_sum)
                    IN  SetColumn(sdf, mask, state,
                          [i \in mask |->
                              ScaledValue(sdf.rows[i].vals[state], ratio)])
               ELSE sdf

RECURSIVE ScaleLoop(_, _, _, _)
\* for state in state_columns: ...
ScaleLoop(sdf, factors, mask, cols) ==
    IF cols = <<>> THEN sdf
    ELSE ScaleLoop(ScaleState(sdf, factors, mask, Head(cols)),
                   factors, mask, Tail(cols))

\* scale_profile(df, scaling_factors, subsector_group)
scale_profile(d, factors, group) ==
    ScaleLoop(d, factors, Mask(d, group), d.columns)

----------------------------------------------------------------------------
(* interpolate_scaling_factors.  The control-totals table is [columns, rows]:
   columns is the sequence of its state columns (scaling_inputs.columns[3:]),
   rows the sequence of its rows, each [scenario, subsector_group, year,
   vals] *)

RECURSIVE SelectRows(_, _)
\* boolean indexing: the rows of a sequence that are in the set kept, in
\* their order
SelectRows(rows, kept) ==
    IF rows = <<>> THEN <<>>
    ELSE IF Head(rows) \in kept
         THEN <<Head(rows)>> \o SelectRows(Tail(rows), kept)
         ELSE SelectRows(Tail(rows), kept)

\* the filter on the scenario alone
MutScenarioDataAnyGroup(table, scen, group) ==
    SelectRows(table.rows, {r \in SeqRange(table.rows) : r.scenario = scen})

\* scaling_inputs[(scenario == scen) & (subsector_group == group)]
ScenarioData(table, scen, group) ==
    SelectRows(table.rows,
               {r \in SeqRange(table.rows) :
                    r.scenario = scen /\ r.subsector_group = group})

\* scenario_data[scenario_data['year'] == y].iloc[0]
YearData(scenario_data, y) ==
    Head(SelectRows(scenario_data,
                    {r \in SeqRange(scenario_data) : r.year = y}))

\* sorted(scenario_data['year'].unique()), as a set
InputYears(scenario_data) == {scenario_data[i].year : i \in DOMAIN scenario_data}

\* max(input_years)
MaxOf(S) == CHOOSE x \in S : \A y \in S : x >= y

\* the latest year taken for the earliest
MutMinIsMax(S) == MaxOf(S)

\* min(input_years)
MinOf(S) == CHOOSE x \in S : \A y \in S : x <= y

\* {state: year_data[state] for state in scaling_inputs.columns[3:]}
RowMap(table, year_data) ==
    [state \in SeqRange(table.columns) |-> year_data.vals[state]]

\* the row above taken for the row below
MutInterpolateSwapped(lower, upper, proportion) ==
    FAdd(upper, FMul(proportion, FSub(lower, upper)))

\* lower + proportion * (upper - lower)
Interpolate(lower, upper, proportion) ==
    FAdd(lower, FMul(proportion, FSub(upper, lower)))

\* 0.0 for every state
MutIdentityZero(table) == [state \in SeqRange(table.columns) |-> <<0, 0>>]

\* {state: 1.0 for state in scaling_inputs.columns[3:]}
IdentityFactors(table) == [state \in SeqRange(table.columns) |-> <<1, 0>>]

\* interpolate_scaling_factors(scaling_inputs, scenario, subsector_group,
\*                             target_year, available_years); available_years
\* is not read
interpolate_scaling_factors(table, scen, group, target) ==
    LET scenario_data == ScenarioData(table, scen, group)
        input_years == InputYears(scenario_data)
    IN  IF scenario_data = <<>>
        THEN IdentityFactors(table)
        ELSE IF target \in input_years
        THEN RowMap(table, YearData(scenario_data, target))
        ELSE IF target < MinOf(input_years)
        THEN RowMap(table, YearData(scenario_data, MinOf(input_years)))
        ELSE IF target > MaxOf(input_years)
        THEN RowMap(table, YearData(scenario_data, MaxOf(input_years)))
        ELSE
          LET lower_year == MaxOf({y \in input_years : y < target})
              upper_year == MinOf({y \in input_years : y > target})
              lower_data == YearData(scenario_data, lower_year)
              upper_data == YearData(scenario_data, upper_year)
              proportion == RoundRat(target - lower_year, upper_year - lower_year)
          IN  [state \in SeqRange(table.columns) |->
                  Interpolate(lower_data.vals[state], upper_data.vals[state],
                              proportion)]

----------------------------------------------------------------------------
(* generate_scenarios.py, the copy-and-rescale loop.  scenario_df maps a
   year to the sequence of its hourly rows, a row maps a column to its
   value; scenario_annual maps a year to the annual total of every column *)

\* year_bins
year_bins == <<2025, 2030, 2035, 2040, 2045, 2050>>

\* trange(2025, 2051)
FirstYear == 2025
StopYear == 2051

LoadColumns == {"california", "texas"}

RECURSIVE ColumnSum(_, _)
\* rows[col].sum(): the values of a column added in row order
ColumnSum(rows, col) ==
    IF rows = <<>> THEN <<0, 0>>
    ELSE FAdd(ColumnSum(SubSeq(rows, 1, Len(rows) - 1), col),
              rows[Len(rows)][col])

\* dataset.groupby(['year']).sum(): the annual totals of the years read
AnnualSums(sdf) ==
    [y \in DOMAIN sdf |-> [col \in LoadColumns |-> ColumnSum(sdf[y], col)]]

\* .resample('YE').mean().interpolate('linear'): a row for every year from
\* the first to the last one read, the years not read filled in on the
\* straight line between their neighbours, slope * (y - lo) + lo_value
InterpolateAnnual(annual) ==
    [y \in MinOf(DOMAIN annual)..MaxOf(DOMAIN annual) |->
        IF y \in DOMAIN annual THEN annual[y]
        ELSE LET lo == MaxOf({z \in DOMAIN annual : z < y})
                 hi == MinOf({z \in DOMAIN annual : z > y})
             IN  [col \in LoadColumns |->
                    FAdd(FMul(FDiv(FSub(annual[hi][col], annual[lo][col]),
                                   FromInt(hi - lo)),
                              FromInt(y - lo)),
                         annual[lo][col])]]

\* the first bin not below year
MutYearSelectUpper(y) ==
    year_bins[Cardinality({i \in DOMAIN year_bins : year_bins[i] < y}) + 1]

\* year_bins[np.digitize(year, year_bins) - 1]: the last bin not above year
YearSelect(y) ==
    year_bins[Cardinality({i \in DOMAIN year_bins : year_bins[i] <= y})]

RECURSIVE Rescale(_, _, _)
\* for col in subset_copy.columns: the column times total / col_total
Rescale(subset_copy, annual, cols) ==
    IF cols = {} THEN subset_copy
    ELSE LET col == CHOOSE c \in cols : TRUE
             col_total == ColumnSum(subset_copy, col)
             ratio == FDiv(annual[col], col_total)
             scaled == [h \in DOMAIN subset_copy |->
                          [subset_copy[h] EXCEPT ![col] = FMul(@, ratio)]]
         IN  Rescale(scaled, annual, cols \ {col})

\* subset_copy[:8760]
Truncate(rows) ==
    SubSeq(rows, 1, IF Len(rows) < HoursPerYear THEN Len(rows) ELSE HoursPerYear)

\* one pass of the loop: the block appended to frames for year y
RescaledBlock(sdf, annual, y) ==
    [year |-> y,
     rows |-> Truncate(Rescale(sdf[YearSelect(y)], annual[y], LoadColumns))]

----------------------------------------------------------------------------
(* The inputs the specifications draw from *)

\* subsector labels of the profile rows
Labels == {<<"res">>, <<"com">>}

\* subsector_group strings: "res" and "res, com"; a profile whose rows are
\* all "com" has no row of the group "res"
Groups == {<<"res">>, <<"res", ",", " ", "com">>}

\* values of the profile's CA column: -3, 0, 1.5, 55
CAValues == {<<-3, 0>>, <<0, 0>>, <<3, 1>>, <<55, 0>>}

\* values of the profile's TX column
TXValues == {<<0, 0>>, <<4, 0>>}

\* scaling factors of CA: 0, 1, 2.5, 8
CAFactors == {<<0, 0>>, <<1, 0>>, <<5, 1>>, <<8, 0>>}

\* scaling factors of TX: 0, 6
TXFactors == {<<0, 0>>, <<6, 0>>}

\* factor maps: CA always has a factor, TX has one or none, NY has none
FactorMaps ==
    {[s \in {"CA"} |-> f] : f \in CAFactors}
    \cup {[s \in {"CA", "TX"} |-> IF s = "CA" THEN f ELSE g] :
             f \in CAFactors, g \in TXFactors}

ProfileRow(i, lab, ca, tx) ==
    [sector |-> "buildings", subsector |-> lab, weather_datetime |-> i,
     vals |-> [s \in {"CA", "TX", "NY"} |->
                 IF s = "CA" THEN ca ELSE IF s = "TX" THEN tx ELSE <<7, 0>>]]

\* the profile table of NumRows rows with subsectors l, CA values c and TX
\* values t; the NY column is 7 in every row
Profile(l, c, t) ==
    [columns |-> <<"CA", "TX", "NY">>,
     rows |-> [i \in 1..NumRows |-> ProfileRow(i, l[i], c[i], t[i])]]

\* df is any profile table of NumRows rows
IsAnyProfile(d) ==
    \E l \in [1..NumRows -> Labels],
       c \in [1..NumRows -> CAValues],
       t \in [1..NumRows -> TXValues] : d = Profile(l, c, t)

NoTable == [columns |-> <<>>, rows |-> <<>>]

\* no name of main is bound
NoNames == [n \in {} |-> 0]

----------------------------------------------------------------------------
(* SpecScale: scale_profile applied to any profile, factor map and group *)

InitScale ==
    /\ scaling_inputs = NoTable
    /\ scenario = "none"
    /\ target_year = 0
    /\ subsector_group \in Groups
    /\ scaling_factors \in FactorMaps
    /\ IsAnyProfile(df)
    /\ scaled_df = df
    /\ scenario_df = <<>>
    /\ scenario_annual = <<>>
    /\ year = 0
    /\ frames = <<>>
    /\ heap = <<>>
    /\ env = NoNames
    /\ subsector_groups = <<>>
    /\ pc = "scale"

\* scaled_df = scale_profile(scaled_df, scaling_factors, subsector_group)
Scale ==
    /\ pc = "scale"
    /\ scaled_df' = scale_profile(scaled_df, scaling_factors, subsector_group)
    /\ pc' = "done"
    /\ UNCHANGED <<scaling_inputs, scenario, subsector_group, target_year,
                   scaling_factors, df, scenarioVars, driverVars>>

NextScale == Scale

SpecScale == InitScale /\ [][NextScale]_vars

----------------------------------------------------------------------------
(* SpecResolve: interpolate_scaling_factors applied to any table, scenario
   and target year *)

Scenarios == {"central", "current policy"}

\* the (scenario, subsector_group) of a table row
TableKeys ==
    {<<"central", <<"res">>>>, <<"current policy", <<"res">>>>,
     <<"central", <<"com">>>>}

TableYears == {2025, 2028, 2035}

TargetYears == {2020, 2025, 2026, 2030}

\* control totals of a row: CA 100 with TX 1, or CA 200 with TX 100
Totals ==
    {[s \in {"CA", "TX"} |-> IF s = "CA" THEN <<100, 0>> ELSE <<1, 0>>],
     [s \in {"CA", "TX"} |-> IF s = "CA" THEN <<200, 0>> ELSE <<100, 0>>]}

TableRow(key, y, v) ==
    [scenario |-> key[1], subsector_group |-> key[2], year |-> y, vals |-> v]

\* the table of n rows with keys k, years y and totals v
Table(n, k, y, v) ==
    [columns |-> <<"CA", "TX">>,
     rows |-> [i \in 1..n |-> TableRow(k[i], y[i], v[i])]]

\* table is any control-totals table of at most max rows
IsAnyTable(table, max) ==
    \E n \in 0..max :
        \E k \in [1..n -> TableKeys],
           y \in [1..n -> TableYears],
           v \in [1..n -> Totals] : table = Table(n, k, y, v)

NoProfile == [columns |-> <<>>, rows |-> <<>>]

NoFactors == [state \in {} |-> <<0, 0>>]

InitResolve ==
    /\ IsAnyTable(scaling_inputs, MaxTableRows)
    /\ scenario \in Scenarios
    /\ subsector_group = <<"res">>
    /\ target_year \in TargetYears
    /\ scaling_factors = NoFactors
    /\ df = NoProfile
    /\ scaled_df = NoProfile
    /\ scenario_df = <<>>
    /\ scenario_annual = <<>>
    /\ year = 0
    /\ frames = <<>>
    /\ heap = <<>>
    /\ env = NoNames
    /\ subsector_groups = <<>>
    /\ pc = "resolve"

\* scaling_factors = interpolate_scaling_factors(scaling_inputs, scenario,
\*                                               subsector_group, year, ...)
Resolve ==
    /\ pc = "resolve"
    /\ scaling_factors' = interpolate_scaling_factors(
                              scaling_inputs, scenario, subsector_group,
                              target_year)
    /\ pc' = "resolved"
    /\ UNCHANGED <<scaling_inputs, scenario, subsector_group, target_year,
                   df, scaled_df, scenarioVars, driverVars>>

NextResolve == Resolve

SpecResolve == InitResolve /\ [][NextResolve]_vars

----------------------------------------------------------------------------
(* SpecPipe: one pass of the body of main's loop over the groups, for any
   scenario, group and year: the factors are resolved, then the profile is
   scaled with them *)

InitPipe ==
    /\ IsAnyTable(scaling_inputs, 1)
    /\ scenario \in Scenarios
    /\ subsector_group \in {<<"res">>, <<"res", ",", " ", "com">>}
    /\ target_year \in {2025, 2030}
    /\ scaling_factors = NoFactors
    /\ IsAnyProfile(df)
    /\ scaled_df = df
    /\ scenario_df = <<>>
    /\ scenario_annual = <<>>
    /\ year = 0
    /\ frames = <<>>
    /\ heap = <<>>
    /\ env = NoNames
    /\ subsector_groups = <<>>
    /\ pc = "resolve"

\* scaling_factors = interpolate_scaling_factors(...)
PipeResolve ==
    /\ pc = "resolve"
    /\ scaling_factors' = interpolate_scaling_factors(
                              scaling_inputs, scenario, subsector_group,
                              target_year)
    /\ pc' = "scale"
    /\ UNCHANGED <<scaling_inputs, scenario, subsector_group, target_year,
                   df, scaled_df, scenarioVars, driverVars>>

\* scaled_df = scale_profile(scaled_df, scaling_factors, subsector_group)
PipeScale ==
    /\ pc = "scale"
    /\ scaled_df' = scale_profile(scaled_df, scaling_factors, subsector_group)
    /\ pc' = "done"
    /\ UNCHANGED <<scaling_inputs, scenario, subsector_group, target_year,
                   scaling_factors, df, scenarioVars, driverVars>>

NextPipe == PipeResolve \/ PipeScale

SpecPipe == InitPipe /\ [][NextPipe]_vars

----------------------------------------------------------------------------
(* SpecGenerate: the copy-and-rescale loop of generate_scenarios.py over
   any hourly shapes of the milestone years *)

\* an hourly row
LoadRow(ca, tx) == [col \in LoadColumns |-> IF col = "california" THEN ca ELSE tx]

\* a shape that rises, california h and texas 2 for hour h, of n hours
Rising(n) == [h \in 1..n |-> LoadRow(<<h, 0>>, <<2, 0>>)]

\* a flat shape, california 2 and texas 3 in every hour, of n hours
Flat(n) == [h \in 1..n |-> LoadRow(<<2, 0>>, <<3, 0>>)]

\* the shapes of a year read: of HoursPerYear hours, or with one hour more
\* (a leap day left in the source)
Shapes == {Rising(HoursPerYear), Flat(HoursPerYear), Rising(HoursPerYear + 1)}

InitGenerate ==
    /\ scaling_inputs = NoTable
    /\ scenario = "none"
    /\ subsector_group = <<>>
    /\ target_year = 0
    /\ scaling_factors = NoFactors
    /\ df = NoProfile
    /\ scaled_df = NoProfile
    /\ scenario_df \in [SeqRange(year_bins) -> Shapes]
    /\ \E annual \in {AnnualSums(scenario_df)} :
          scenario_annual = InterpolateAnnual(annual)
    /\ year = FirstYear
    /\ frames = <<>>
    /\ heap = <<>>
    /\ env = NoNames
    /\ subsector_groups = <<>>
    /\ pc = "rescale"

\* the body of "for year in pbar"
CopyAndRescale ==
    /\ pc = "rescale"
    /\ year < StopYear
    /\ frames' = Append(frames, RescaledBlock(scenario_df, scenario_annual, year))
    /\ year' = year + 1
    /\ pc' = IF year + 1 = StopYear THEN "recombine" ELSE "rescale"
    /\ UNCHANGED <<scalingVars, scenario_df, scenario_annual, driverVars>>

NextGenerate == CopyAndRescale

SpecGenerate == InitGenerate /\ [][NextGenerate]_vars

----------------------------------------------------------------------------
(* main, the body of the loop over the year files.  Tables and maps are
   objects: heap is the sequence of the objects made so far, the identity of
   an object is its index, and env maps a name of main to the object it is
   bound to (0: not bound yet) *)

\* a new object holding value
Alloc(h, value) == [ref |-> Len(h) + 1, heap |-> Append(h, value)]

\* no copy made: the result is the object passed in
MutCopyAlias(h, ref) == [ref |-> ref, heap |-> h]

\* df.copy(): a new object with the values of the object ref
Copy(h, ref) == Alloc(h, h[ref])

\* scale_profile(df, scaling_factors, subsector_group) called with the
\* objects d and f: the copy is made, every assignment
\* scaled_df.loc[mask, state] = ... writes to the copy, the copy is returned
scale_profile_call(h, d, f, group) ==
    LET c == Copy(h, d)
        sdf == c.heap[c.ref]
    IN  [ref |-> c.ref,
         heap |-> [c.heap EXCEPT ![c.ref] =
                      ScaleLoop(sdf, h[f], Mask(sdf, group), sdf.columns)]]

\* interpolate_scaling_factors called with the object t: boolean indexing
\* and the dict comprehension make new objects, the dict is returned
interpolate_call(h, t, scen, group, target) ==
    Alloc(h, interpolate_scaling_factors(h[t], scen, group, target))

RECURSIVE Unique(_)
\* .unique(): the values of a sequence in the order of their first
\* appearance
Unique(seq) ==
    IF seq = <<>> THEN <<>>
    ELSE LET u == Unique(SubSeq(seq, 1, Len(seq) - 1))
         IN  IF seq[Len(seq)] \in SeqRange(u) THEN u
             ELSE Append(u, seq[Len(seq)])

\* scaling_inputs[scaling_inputs['scenario'] == scenario]
\*     ['subsector_group'].unique()
SubsectorGroups(table, scen) ==
    LET rows == SelectRows(table.rows,
                           {r \in SeqRange(table.rows) : r.scenario = scen})
    IN  Unique([i \in DOMAIN rows |-> rows[i].subsector_group])

----------------------------------------------------------------------------
(* SpecDriver: the body of main's loop over the year files, for one
   scenario and year: the groups of the scenario are read from the control
   totals, then the factors of each are resolved and the profile scaled *)

\* the (scenario, subsector_group) of a row of the control totals
DriverKeys ==
    {<<"central", <<"res">>>>, <<"central", <<"com">>>>,
     <<"central", <<"res", ",", " ", "com">>>>,
     <<"current policy", <<"res">>>>}

\* control totals of a row: CA 1 with TX 6, or CA 8 with TX 0
DriverTotals ==
    {[s \in {"CA", "TX"} |-> IF s = "CA" THEN <<1, 0>> ELSE <<6, 0>>],
     [s \in {"CA", "TX"} |-> IF s = "CA" THEN <<8, 0>> ELSE <<0, 0>>]}

\* values of the profile's CA column: 0, 1.5, 55
DriverCAValues == {<<0, 0>>, <<3, 1>>, <<55, 0>>}

\* the control-totals table of n rows with keys k and totals v, all of 2025
DriverTable(n, k, v) == Table(n, k, [i \in 1..n |-> 2025], v)

\* the profile of NumRows rows with subsectors l and CA values c, TX 4 and
\* NY 7 in every row
DriverProfile(l, c) == Profile(l, c, [i \in 1..NumRows |-> <<4, 0>>])

InitDriver ==
    /\ scaling_inputs = NoTable
    /\ scenario = "central"
    /\ subsector_group = <<>>
    /\ target_year = 2025
    /\ scaling_factors = NoFactors
    /\ df = NoProfile
    /\ scaled_df = NoProfile
    /\ scenario_df = <<>>
    /\ scenario_annual = <<>>
    /\ year = 0
    /\ frames = <<>>
    /\ \E n \in 0..2 :
          \E k \in [1..n -> DriverKeys], v \in [1..n -> DriverTotals],
             l \in [1..NumRows -> Labels],
             c \in [1..NumRows -> DriverCAValues] :
              heap = <<DriverTable(n, k, v), DriverProfile(l, c)>>
    /\ env = [scaling_inputs |-> 1, df |-> 2, scaled_df |-> 0,
              scaling_factors |-> 0]
    /\ subsector_groups = <<>>
    /\ pc = "groups"

\* subsector_groups = scaling_inputs[...]['subsector_group'].unique();
\* scaled_df = df.copy()
DriverCopy ==
    /\ pc = "groups"
    /\ subsector_groups' = SubsectorGroups(heap[env.scaling_inputs], scenario)
    /\ LET c == Copy(heap, env.df)
       IN  /\ heap' = c.heap
           /\ env' = [env EXCEPT !.scaled_df = c.ref]
    /\ pc' = "loop"
    /\ UNCHANGED <<scalingVars, scenarioVars>>

\* for subsector_group in subsector_groups:
\*     scaling_factors = interpolate_scaling_factors(...)
DriverResolve ==
    /\ pc = "loop"
    /\ subsector_groups # <<>>
    /\ subsector_group' = Head(subsector_groups)
    /\ LET r == interpolate_call(heap, env.scaling_inputs, scenario,
                                 Head(subsector_groups), target_year)
       IN  /\ heap' = r.heap
           /\ env' = [env EXCEPT !.scaling_factors = r.ref]
    /\ pc' = "scale"
    /\ UNCHANGED <<scaling_inputs, scenario, target_year, scaling_factors,
                   df, scaled_df, scenarioVars, subsector_groups>>

\*     scaled_df = scale_profile(scaled_df, scaling_factors, subsector_group)
DriverScale ==
    /\ pc = "scale"
    /\ LET r == scale_profile_call(heap, env.scaled_df, env.scaling_factors,
                                   subsector_group)
       IN  /\ heap' = r.heap
           /\ env' = [env EXCEPT !.scaled_df = r.ref]
    /\ subsector_groups' = Tail(subsector_groups)
    /\ pc' = "loop"
    /\ UNCHANGED <<scalingVars, scenarioVars>>

\* scaled_df.to_csv(output_file, ...); scenario_data[year] = scaled_df
DriverSave ==
    /\ pc = "loop"
    /\ subsector_groups = <<>>
    /\ pc' = "done"
    /\ UNCHANGED <<scalingVars, scenarioVars, driverVars>>

NextDriver == DriverCopy \/ DriverResolve \/ DriverScale \/ DriverSave

SpecDriver == InitDriver /\ [][NextDriver]_vars

----------------------------------------------------------------------------
(* Exact arithmetic on numbers, for stating the claims *)

ExactAdd(x, y) ==
    LET K == Max(x[2], y[2])
    IN  Norm(x[1] * Pow2(K - x[2]) + y[1] * Pow2(K - y[2]), K)

ExactSub(x, y) == ExactAdd(x, <<-y[1], y[2]>>)

RECURSIVE ExactSumOver(_, _, _)
ExactSumOver(d, mask, state) ==
    IF mask = {} THEN <<0, 0>>
    ELSE LET i == CHOOSE j \in mask : TRUE
         IN  ExactAdd(ExactSumOver(d, mask \ {i}, state), d.rows[i].vals[state])

\* n is the integer part of x: between 0 and x, less than 1 from x
IsIntegerPartOf(n, x) ==
    /\ Abs(n) * Pow2(x[2]) <= Abs(x[1])
    /\ Abs(x[1]) < (Abs(n) + 1) * Pow2(x[2])
    /\ n # 0 => Sgn(n) = Sgn(x[1])

\* the fraction of x is a half or more: nearest and integer part differ
FractionAtLeastHalf(x) == 2 * (Abs(x[1]) % Pow2(x[2])) >= Pow2(x[2])

----------------------------------------------------------------------------
(* Claims about scale_profile, under SpecScale: df is the table passed in,
   scaled_df the table returned *)

ScaleDone == pc = "done" /\ scaling_inputs = NoTable

GroupMask == Mask(df, subsector_group)

RowCount == Cardinality(GroupMask)

\* the state columns scale_profile has a factor for
FactorColumns == {s \in SeqRange(df.columns) : s \in DOMAIN scaling_factors}

GroupSumBefore(state) == SumOver(df, GroupMask, state)

\* value * (factor / group_sum) as the code computes it
Product(i, state) ==
    FMul(df.rows[i].vals[state],
         FDiv(scaling_factors[state], GroupSumBefore(state)))

\* C1: in the normal case (the state has a factor and the group sum is not
\* zero) every row of the group becomes the integer part of
\* value * (factor / group_sum), truncated toward zero: for a negative
\* product that is not the floor, and it is never the nearest integer.
C1_NormalCaseTruncates ==
    ScaleDone =>
        \A state \in FactorColumns :
            ~IsZero(GroupSumBefore(state)) =>
                \A i \in GroupMask :
                    /\ scaled_df.rows[i].vals[state][2] = 0
                    /\ IsIntegerPartOf(scaled_df.rows[i].vals[state][1],
                                       Product(i, state))

\* a product that is negative with a fraction of a half or more was scaled:
\* floor, nearest and integer part all differ there
C1_Witness ==
    /\ ScaleDone
    /\ \E state \in FactorColumns :
          /\ ~IsZero(GroupSumBefore(state))
          /\ \E i \in GroupMask :
                /\ Product(i, state)[1] < 0
                /\ FractionAtLeastHalf(Product(i, state))

\* C2: after scale_profile, for a state with a factor and a group sum that
\* was not zero, the new group sum is less than row_count away from the
\* factor.
C2_SumWithinRowCount ==
    ScaleDone =>
        \A state \in FactorColumns :
            ~IsZero(GroupSumBefore(state)) =>
                LET diff == ExactSub(ExactSumOver(scaled_df, GroupMask, state),
                                     scaling_factors[state])
                IN  Abs(diff[1]) < RowCount * Pow2(diff[2])

\* C7: in the zero-to-positive case every row of the group becomes the
\* integer part of factor / row_count, the new group sum is row_count times
\* that, which is the factor when row_count divides it; with no row in the
\* group the column is unchanged.
C7_ZeroToPositive ==
    ScaleDone =>
        \A state \in FactorColumns :
            LET f == scaling_factors[state]
                n == RowCount
            IN  (IsZero(GroupSumBefore(state)) /\ IsPos(f)) =>
                  /\ n = 0 =>
                        \A i \in DOMAIN df.rows :
                            scaled_df.rows[i].vals[state] = df.rows[i].vals[state]
                  /\ n > 0 =>
                        \E share \in 0..f[1] :
                            /\ share * n * Pow2(f[2]) <= f[1]
                            /\ f[1] < (share + 1) * n * Pow2(f[2])
                            /\ \A i \in GroupMask :
                                  scaled_df.rows[i].vals[state] = <<share, 0>>
                            /\ ExactSumOver(scaled_df, GroupMask, state)
                                  = <<n * share, 0>>
                            /\ (f[2] = 0 /\ f[1] % n = 0) =>
                                  ExactSumOver(scaled_df, GroupMask, state) = f

\* a zero column of two or more rows was given a positive share that does
\* not add up to the factor
C7_Witness ==
    /\ ScaleDone
    /\ \E state \in FactorColumns :
          /\ IsZero(GroupSumBefore(state))
          /\ IsPos(scaling_factors[state])
          /\ RowCount >= 2
          /\ \A i \in GroupMask : scaled_df.rows[i].vals[state][1] >= 1
          /\ ExactSumOver(scaled_df, GroupMask, state) # scaling_factors[state]

\* the cells scale_profile has no business with
Untargeted(i, state) ==
    \/ i \notin GroupMask
    \/ state \notin DOMAIN scaling_factors
    \/ (IsZero(GroupSumBefore(state)) /\ IsZero(scaling_factors[state]))

\* C8: every cell outside the target set (the row is not of the group, or
\* the state has no factor, or group sum and factor are both 0) is as it
\* was, and so are the sector, subsector and weather_datetime of every row.
C8_FrameOfScale ==
    ScaleDone =>
        /\ scaled_df.columns = df.columns
        /\ DOMAIN scaled_df.rows = DOMAIN df.rows
        /\ \A i \in DOMAIN df.rows :
              /\ scaled_df.rows[i].sector = df.rows[i].sector
              /\ scaled_df.rows[i].subsector = df.rows[i].subsector
              /\ scaled_df.rows[i].weather_datetime = df.rows[i].weather_datetime
              /\ DOMAIN scaled_df.rows[i].vals = DOMAIN df.rows[i].vals
              /\ \A state \in SeqRange(df.columns) :
                    Untargeted(i, state) =>
                        scaled_df.rows[i].vals[state] = df.rows[i].vals[state]

\* one call changed a cell of the group and left alone a row outside the
\* group, a state without a factor and a zero column with factor 0
C8_Witness ==
    /\ ScaleDone
    /\ scaled_df # df
    /\ \E i \in DOMAIN df.rows : i \notin GroupMask
    /\ \E state \in SeqRange(df.columns) : state \notin DOMAIN scaling_factors
    /\ \E state \in FactorColumns :
          /\ IsZero(GroupSumBefore(state))
          /\ IsZero(scaling_factors[state])
          /\ GroupMask # {}

----------------------------------------------------------------------------
(* Claims about interpolate_scaling_factors, under SpecResolve:
   scaling_factors is the map returned for (scenario, subsector_group,
   target_year) *)

Resolved == pc = "resolved"

\* the indices of the table rows of the scenario and group asked for
Matching ==
    {i \in DOMAIN scaling_inputs.rows :
        /\ scaling_inputs.rows[i].scenario = scenario
        /\ scaling_inputs.rows[i].subsector_group = subsector_group}

\* Y: the years present for the scenario and group
Y == {scaling_inputs.rows[i].year : i \in Matching}

\* the row of year y: the first one, should the table repeat the year
RowOfYear(y) ==
    LET first == CHOOSE i \in Matching :
                    /\ scaling_inputs.rows[i].year = y
                    /\ \A j \in Matching :
                          scaling_inputs.rows[j].year = y => i <= j
    IN  scaling_inputs.rows[first]

TableColumns == SeqRange(scaling_inputs.columns)

\* the returned map is the row of year y, state by state
ReturnsRowOf(y) ==
    /\ DOMAIN scaling_factors = TableColumns
    /\ \A state \in TableColumns :
          scaling_factors[state] = RowOfYear(y).vals[state]

Earliest(y) == y \in Y /\ \A z \in Y : y <= z

Latest(y) == y \in Y /\ \A z \in Y : y >= z

\* the target lies strictly between two years of Y and is none of them
Between == Y # {} /\ target_year \notin Y
           /\ (\E y \in Y : y < target_year) /\ (\E y \in Y : y > target_year)

\* lo: the largest year of Y below the target; hi: the smallest above
IsLo(y) == y \in Y /\ y < target_year /\ \A z \in Y : z < target_year => z <= y

IsHi(y) == y \in Y /\ y > target_year /\ \A z \in Y : z > target_year => z >= y

\* |x - n/d| * 2^MantBits <= 8 * bound, d > 0: x is n/d up to a few roundings
\* of numbers no larger than bound
WithinRounding(x, n, d, bound) ==
    Abs(x[1] * d - n * Pow2(x[2])) * Pow2(MantBits) <= 8 * bound * Pow2(x[2]) * d

\* resolve(lo) * (1 - t) + resolve(hi) * t for state, in floating point
ConvexForm(lo, hi, state) ==
    LET t == RoundRat(target_year - lo, hi - lo)
        at_lo == interpolate_scaling_factors(scaling_inputs, scenario,
                                             subsector_group, lo)
        at_hi == interpolate_scaling_factors(scaling_inputs, scenario,
                                             subsector_group, hi)
    IN  FAdd(FMul(at_lo[state], FSub(<<1, 0>>, t)), FMul(at_hi[state], t))

\* C4 as claimed: between lo and hi the returned factor is
\* lo_value + t * (hi_value - lo_value), and resolve(lo) * (1 - t) +
\* resolve(hi) * t is equal to it.
C4_ConvexFormEqual ==
    (Resolved /\ Between) =>
        \A lo \in Y, hi \in Y :
            (IsLo(lo) /\ IsHi(hi)) =>
                \A state \in TableColumns :
                    ConvexForm(lo, hi, state) = scaling_factors[state]

\* C4, amended: between lo and hi the returned factor of every state is the
\* linear interpolant lo_value + t * (hi_value - lo_value),
\* t = (target - lo) / (hi - lo), up to floating point rounding (a few units
\* in the last place of the larger of the two values), and so is
\* resolve(lo) * (1 - t) + resolve(hi) * t; the two need not be equal.
\* CA = 100 in 2025 and 200 in 2035 gives exactly 150 for 2030.
C4_InterpolatesUpToRounding ==
    (Resolved /\ Between) =>
        /\ DOMAIN scaling_factors = TableColumns
        /\ \A lo \in Y, hi \in Y :
            (IsLo(lo) /\ IsHi(hi)) =>
                \A state \in TableColumns :
                    LET lv == RowOfYear(lo).vals[state]
                        hv == RowOfYear(hi).vals[state]
                        K == Max(lv[2], hv[2])
                        a == lv[1] * Pow2(K - lv[2])
                        b == hv[1] * Pow2(K - hv[2])
                        \* the interpolant is n / d
                        n == a * (hi - target_year) + b * (target_year - lo)
                        d == (hi - lo) * Pow2(K)
                        bound == Max(Abs(a), Abs(b))
                    IN  /\ WithinRounding(scaling_factors[state], n,
                                          d, bound)
                        /\ WithinRounding(ConvexForm(lo, hi, state), n,
                                          d, bound)
                        /\ (lv = <<100, 0>> /\ hv = <<200, 0>> /\ lo = 2025
                            /\ hi = 2035 /\ target_year = 2030) =>
                                scaling_factors[state] = <<150, 0>>

\* CA is 100 in 2025 and 200 in 2035, the target is 2030, and rows of
\* another scenario or group stand in the table
C4_Witness ==
    /\ Resolved
    /\ Between
    /\ target_year = 2030
    /\ IsLo(2025) /\ IsHi(2035)
    /\ RowOfYear(2025).vals["CA"] = <<100, 0>>
    /\ RowOfYear(2035).vals["CA"] = <<200, 0>>
    /\ scaling_factors["CA"] = <<150, 0>>
    /\ Matching # DOMAIN scaling_inputs.rows

\* C5: for a target year that is in Y the returned map is that year's row,
\* value by value, whatever the rows of other years, scenarios or groups.
C5_ExactYearVerbatim ==
    (Resolved /\ target_year \in Y) => ReturnsRowOf(target_year)

\* the target year is in Y, and the table also holds a row of another year
\* of the scenario and group and a row of the same year of another scenario
\* or group with other values
C5_Witness ==
    /\ Resolved
    /\ target_year \in Y
    /\ \E y \in Y : y # target_year
    /\ \E i \in DOMAIN scaling_inputs.rows :
          /\ i \notin Matching
          /\ scaling_inputs.rows[i].year = target_year
          /\ scaling_inputs.rows[i].vals # RowOfYear(target_year).vals

\* C6: a target year below min(Y) gets the row of min(Y), one above max(Y)
\* the row of max(Y); nothing is extrapolated.
C6_ClampsToBoundaryYear ==
    Resolved =>
        \A y \in Y :
            /\ (Earliest(y) /\ target_year < y) => ReturnsRowOf(y)
            /\ (Latest(y) /\ target_year > y) => ReturnsRowOf(y)

\* the target is below the earliest of two years of Y whose rows differ
C6_Witness ==
    /\ Resolved
    /\ \E y \in Y, z \in Y :
          /\ Earliest(y)
          /\ target_year < y
          /\ y < z
          /\ RowOfYear(y).vals # RowOfYear(z).vals
          /\ ReturnsRowOf(y)

\* C9: with no row of the scenario and group the call returns a map with
\* one entry for every state column of the table, each 1.0.
C9_NoRowsGivesOnes ==
    (Resolved /\ Matching = {}) =>
        /\ DOMAIN scaling_factors = TableColumns
        /\ \A state \in TableColumns : scaling_factors[state] = <<1, 0>>

\* the table has rows, none of the scenario and group asked for
C9_Witness ==
    /\ Resolved
    /\ Matching = {}
    /\ scaling_inputs.rows # <<>>
    /\ DOMAIN scaling_factors = {"CA", "TX"}

----------------------------------------------------------------------------
(* Claims about resolving and scaling in sequence, under SpecPipe *)

\* C3: with no row of the scenario and group in the control totals, scaling
\* with the map interpolate_scaling_factors returns changes nothing: every
\* cell of the returned profile is the cell of the profile passed in.
C3_MissingControlDataIsNoOp ==
    (pc = "done" /\ scaling_inputs # NoTable /\ Matching = {}) =>
        scaled_df = df

----------------------------------------------------------------------------
(* Claims about the copy-and-rescale loop, under SpecGenerate *)

RECURSIVE ExactColumnSum(_, _)
ExactColumnSum(rows, col) ==
    IF rows = <<>> THEN <<0, 0>>
    ELSE ExactAdd(ExactColumnSum(Tail(rows), col), Head(rows)[col])

\* |x - t| * 2^MantBits <= 8 * (n + 1) * |t|: x is t up to the roundings of
\* n scaled values and their total
SumMatches(x, t, n) ==
    LET diff == ExactSub(x, t)
    IN  Abs(diff[1]) * Pow2(MantBits) * Pow2(t[2])
            <= 8 * (n + 1) * Abs(t[1]) * Pow2(diff[2])

\* C10: the rows emitted for a year (the block as truncated) add up, column
\* by column, to the interpolated annual total of that year, up to floating
\* point rounding.
C10_BlockSumIsAnnualTotal ==
    \A i \in DOMAIN frames :
        \A col \in LoadColumns :
            SumMatches(ExactColumnSum(frames[i].rows, col),
                       scenario_annual[frames[i].year][col],
                       Len(frames[i].rows))

\* the greatest of 2025, 2030, ..., 2050 that is not above y
Milestone(y) == 2025 + 5 * ((y - 2025) \div 5)

\* the rows of block i are the rows of the shape read for year m, as many as
\* are kept, every column multiplied by one scalar, total / col_total
CopiedFrom(i, m) ==
    LET block == frames[i]
        shape == scenario_df[m]
    IN  /\ Len(block.rows) =
               (IF Len(shape) < HoursPerYear THEN Len(shape) ELSE HoursPerYear)
        /\ \A col \in LoadColumns :
              LET scalar == FDiv(scenario_annual[block.year][col],
                                 ColumnSum(shape, col))
              IN  \A h \in DOMAIN block.rows :
                      block.rows[h][col] = FMul(shape[h][col], scalar)

\* C12: the blocks are emitted for the years 2025, 2026, ... in turn, and
\* when the loop is over there is one for every year of 2025..2050, the block
\* of year y being the shape of the greatest milestone <= y with every
\* column multiplied by one scalar: the shape of a year between two
\* milestones is the lower milestone's, not a mix of the two.
C12_ShapeOfLowerMilestone ==
    /\ \A i \in DOMAIN frames :
          /\ frames[i].year = 2025 + i - 1
          /\ frames[i].year <= 2050
    /\ pc = "recombine" =>
          /\ Len(frames) = 26
          /\ \A i \in DOMAIN frames :
                /\ Milestone(frames[i].year)
                      \in {2025, 2030, 2035, 2040, 2045, 2050}
                /\ CopiedFrom(i, Milestone(frames[i].year))

\* the loop is over; 2029 lies between a rising 2025 and a flat 2030, and
\* its block has the shape of 2025, which the shape of 2030 would not give
C12_Witness ==
    /\ pc = "recombine"
    /\ scenario_df[2025] = Rising(HoursPerYear)
    /\ scenario_df[2030] = Flat(HoursPerYear)
    /\ frames[5].year = 2029
    /\ CopiedFrom(5, 2025)
    /\ ~CopiedFrom(5, 2030)
    /\ frames[26].year = 2050
    /\ CopiedFrom(26, 2050)

----------------------------------------------------------------------------
(* Claims about main, under SpecDriver: heap[env.df] is the table read for
   the scenario and year, heap[env.scaled_df] the table scaled so far *)

\* C11: scale_profile is pure: a call leaves the profile table and the
\* factor map it was passed as they were and returns a table that is a new
\* object; so no step of the driver alters an object that exists, the table
\* read for the scenario and year and the control-totals table among them.
C11_ScaleProfileIsPure ==
    [][/\ \A o \in DOMAIN heap : o \in DOMAIN heap' /\ heap'[o] = heap[o]
       /\ env'.df = env.df
       /\ env'.scaling_inputs = env.scaling_inputs
       /\ pc = "scale" =>
             /\ env'.scaled_df \notin DOMAIN heap
             /\ heap'[env.scaled_df] = heap[env.scaled_df]
             /\ heap'[env.scaling_factors] = heap[env.scaling_factors]]_vars

\* two groups were scaled, each call changed the table it was passed, and
\* the table read is not the table saved
C11_Witness ==
    /\ pc = "done"
    /\ Len(heap) = 7
    /\ heap[5] # heap[3]
    /\ heap[7] # heap[5]
    /\ heap[env.scaled_df] # heap[env.df]

DriverDone == pc = "done"

\* the control totals, the table read and the table saved
ControlTotals == heap[env.scaling_inputs]
Original == heap[env.df]
Final == heap[env.scaled_df]

\* the groups the driver went through, in its order
GroupsOfScenario == SubsectorGroups(ControlTotals, scenario)

\* the member subsectors of a group
Members(g) == SeqRange(Subsectors(g))

\* no subsector is a member of two groups of the scenario
PairwiseDisjoint ==
    \A i, j \in DOMAIN GroupsOfScenario :
        i # j => Members(GroupsOfScenario[i]) \cap Members(GroupsOfScenario[j]) = {}

\* the factors the driver resolved for group g
ResolvedFactors(g) ==
    interpolate_scaling_factors(ControlTotals, scenario, g, target_year)

\* C13: when the groups of the scenario have pairwise disjoint members and
\* the driver has resolved and scaled every one of them, the saved table
\* has, for every group and every state whose group sum in the table read
\* was not zero, a group sum less than row_count away from the resolved
\* factor.
C13_EveryGroupKeepsItsTotal ==
    (DriverDone /\ PairwiseDisjoint) =>
        \A n \in DOMAIN GroupsOfScenario :
            LET g == GroupsOfScenario[n]
                mask == Mask(Original, g)
            IN  \A state \in SeqRange(Original.columns) \cap DOMAIN ResolvedFactors(g) :
                    ~IsZero(SumOver(Original, mask, state)) =>
                        LET diff == ExactSub(ExactSumOver(Final, mask, state),
                                             ResolvedFactors(g)[state])
                        IN  Abs(diff[1]) < Cardinality(mask) * Pow2(diff[2])

RECURSIVE ScaleAll(_, _)
\* the table after resolve and scale for the groups of a sequence, in its
\* order
ScaleAll(p, order) ==
    IF order = <<>> THEN p
    ELSE ScaleAll(scale_profile(p, ResolvedFactors(Head(order)), Head(order)),
                  Tail(order))

\* the groups of the scenario in the order perm
Reordered(perm) == [i \in DOMAIN GroupsOfScenario |-> GroupsOfScenario[perm[i]]]

\* C14: scale_profile calls for groups with disjoint members commute, so
\* when the groups of the scenario are pairwise disjoint the table the
\* driver saves is the table that resolve and scale give for the groups
\* taken in any other order.
C14_DisjointGroupsCommute ==
    (DriverDone /\ PairwiseDisjoint) =>
        \A perm \in Permutations(DOMAIN GroupsOfScenario) :
            ScaleAll(Original, Reordered(perm)) = Final

\* two disjoint groups were scaled, each call changed the table, and the
\* calls made the other way round give the table saved
C14_Witness ==
    /\ DriverDone
    /\ PairwiseDisjoint
    /\ Len(GroupsOfScenario) = 2
    /\ ResolvedFactors(GroupsOfScenario[1]) # ResolvedFactors(GroupsOfScenario[2])
    /\ ScaleAll(Original, <<GroupsOfScenario[1]>>) # Original
    /\ ScaleAll(Original, <<GroupsOfScenario[2]>>) # Original
    /\ ScaleAll(Original, <<GroupsOfScenario[2], GroupsOfScenario[1]>>) = Final
    /\ Final # ScaleAll(Original, <<GroupsOfScenario[1]>>)

\* the groups share a subsector and the other order gives another table
OrderDependent ==
    /\ DriverDone
    /\ ~PairwiseDisjoint
    /\ Len(GroupsOfScenario) = 2
    /\ ScaleAll(Original, <<GroupsOfScenario[2], GroupsOfScenario[1]>>) # Final

====
